---- MODULE Spec2Model ----
(***************************************************************************)
(* Model of cocotb_bus/drivers/__init__.py: the Driver transaction queue   *)
(* with its background drain task (_send_thread), the blocking send()      *)
(* path, the lock helpers, BusDriver._driver_send,                         *)
(* ValidatedBusDriver._next_valids, BitDriver and polled_socket_attachment.*)
(*                                                                         *)
(* Scheduling is cocotb's: cooperative, one coroutine runs at a time from  *)
(* one await to the next.  The drain task's position is tpc; while it is   *)
(* at a position that is not an await ("outer", "inner", "notify") no      *)
(* other coroutine runs (CpuFree is false).                                *)
(***************************************************************************)
EXTENDS Integers, Sequences, FiniteSets, TLC

\* ---------------------------------------------------------------- bounds
MaxAppends == 2
MaxSends == 1
MaxClears == 1
MaxKills == 2
\* Valid-generator sources: at most MaxSrcLen pairs (on, off); at most MaxCalls
\* calls of _next_valids per installed generator.
MaxSrcLen == 3
MaxCalls == 3
\* BitDriver: start() and stop() calls made, rising edges seen by a twiddler.
MaxStarts == 2
MaxStops == 2
MaxEdges == 5
\* polled_socket_attachment: polls of the socket.
MaxPolls == 4
\* Lock helpers: contending tasks, and _acquire_lock calls made in all.
NumTasks == 3
MaxAcquires == 4

\* One coroutine per send() call made.
Callers == 1..MaxSends
\* Who performs a _driver_send: 0 is the drain task, c >= 1 a send() caller.
DrainId == 0

VARIABLES
    impl,         \* which _driver_send the instance has: "Base", "Bus", "Sub"
    sendQ,        \* Driver._sendQ: sequence of [txn, cb, ev]
    pending,      \* Driver._pending: the Event's fired flag
    thread,       \* Driver._thread is not None
    tpc,          \* position of the _send_thread task
    synchronised, \* local of _send_thread
    cur,          \* the entry popped by _send_thread (locals transaction, callback, event)
    callers,      \* per send() caller: [pc, txn, sync]
    bus,          \* BusDriver.bus.value: the last transaction written (0: none)
    busWrites,    \* history: writes of the drain task to the bus since the last
                  \* rising edge that resumed a coroutine
    clears,       \* history: per clear() called while a queued send was in
                  \* flight: at, the length of dlog and n, the appends made then
    nAppends, nSends, nClears, nKills, \* calls made so far (bounded)
    dropped,      \* history: the payloads discarded by clear()
    opts,         \* history: per append, by payload: the [cb, ev] given; qe: the
                  \* queue was empty when the append was made; fl: it was empty
                  \* and a queued send was in flight
    dlog,         \* history: what the drain task did, and the kill() calls, in order
    clog,         \* history: what the send() callers did, in order
    valid_generator, \* ValidatedBusDriver.valid_generator: [some, items]
    on, off,      \* ValidatedBusDriver.on / .off (Python values)
    vop,          \* history: the last call made on the ValidatedBusDriver
    vpre,         \* history: valid_generator as the last _next_valids found it
    vpulls,       \* history: next() calls made by the last _next_valids
    vexh,         \* history: the installed generator has raised StopIteration
    voff,         \* history: off as the last _next_valids found it
    nCalls,       \* _next_valids calls made since the last set_valid_generator
    bgenerator,   \* BitDriver._generator: [some, pat, pos], a cycling source
    cr,           \* BitDriver._cr: index in twiddlers of the task forked last (0: None)
    twiddlers,    \* the _cr_twiddler tasks forked so far: sequence of [pc, left, off]
    signal,       \* BitDriver._signal.value (-1: never written)
    wave,         \* history: signal as sampled at each rising edge
    pulled,       \* history: the pairs pulled from _generator, in order
    stopped,      \* history: stop() was called and start() was not called since
    lateWrite,    \* history: a twiddler wrote the signal while stopped
    nStops,       \* stop() calls made so far (bounded)
    busy,         \* Driver.busy
    busy_event,   \* Driver.busy_event: the Event's fired flag
    lockers,      \* per contending task: its position around the lock helpers
    nAcquires,    \* _acquire_lock calls made so far (bounded)
    spc,          \* position of the polled_socket_attachment coroutine
    slog          \* history: what each poll of the socket gave, in order

\* The Driver's state and history.
dvars == <<impl, sendQ, pending, thread, tpc, synchronised, cur, callers, bus,
           busWrites, clears,
           nAppends, nSends, nClears, nKills, dropped, opts, dlog, clog>>

\* The ValidatedBusDriver's cycle state and history.
vvars == <<valid_generator, on, off, vop, vpre, vpulls, vexh, voff, nCalls>>

\* The BitDriver's state and history.
bvars == <<bgenerator, cr, twiddlers, signal, wave, pulled, stopped, lateWrite, nStops>>

\* The lock fields of the Driver and the tasks contending for them.
lvars == <<busy, busy_event, lockers, nAcquires>>

\* The socket poller.
svars == <<spc, slog>>

\* What the queue and the valid-cycle operations leave alone.
xvars == <<bvars, lvars, svars>>

vars == <<dvars, vvars, xvars>>

\* Payloads are distinct: the k-th append carries k, the k-th send() carries -k.
AppendTxn == nAppends + 1
SendTxn == 0 - (nSends + 1)

NoEntry == [txn |-> 0, cb |-> FALSE, ev |-> FALSE]

\* One history event. k: kind; t: payload; s: the sync flag (start events);
\* by: DrainId or the caller; n: for the events that end the drain task
\* ("raise", "kill"), the appends made before it.
Ev(k, t, s, by) ==
    [k |-> k, t |-> t, s |-> s, by |-> by,
     n |-> IF k \in {"raise", "kill"} /\ by = DrainId THEN nAppends ELSE 0]

\* ------------------------------------------------------------ Driver code

\* (mutation of Enqueue: appendleft instead of append)
EnqueueLeft(q, e) == <<e>> \o q

\* Driver.append, line 128: the tuple goes to the tail of the deque.
Enqueue(q, e) == Append(q, e)

\* _send_thread, line 199: popleft returns the head ...
PopHead(q) == Head(q)
\* ... and removes it.
PopRest(q) == Tail(q)

\* (mutation of SyncArg: every send synchronised)
SyncAlways(s) == TRUE

\* _send_thread, line 202: sync=not synchronised.
SyncArg(s) == ~s

\* (mutation of ClearedQ: clear() leaves the deque as it is)
ClearLeavesQueue == sendQ

\* Driver.clear, line 133: a fresh empty deque.
ClearedQ == <<>>

\* (mutation of WakeOnPending: the set() reaches no waiter)
WakeOnPendingLost(pc) == pc

\* Event.set() on Driver._pending (line 129) wakes the drain task if it is
\* suspended in self._pending.wait() (line 192).
WakeOnPending(pc) == IF pc = "waiting" THEN "woken" ELSE pc

\* (mutation of Notifications: the callback is forgotten)
NotifyEventOnly(e) ==
    IF e.ev THEN <<Ev("event", e.txn, FALSE, DrainId)>> ELSE <<>>

\* Driver._send, lines 181-184: after _driver_send has returned, set the event
\* if one was given, then call the callback if one was given.
Notifications(e) ==
    (IF e.ev THEN <<Ev("event", e.txn, FALSE, DrainId)>> ELSE <<>>) \o
    (IF e.cb THEN <<Ev("callback", e.txn, FALSE, DrainId)>> ELSE <<>>)

\* (mutation of AfterSend: the exception of _driver_send is swallowed)
AfterSendSwallow(out) == IF out = "suspend" THEN "sending" ELSE "notify"

\* Where the drain task is after `await self._send(...)` (line 201) came back
\* with `out`: nothing catches an exception of _driver_send (lines 178, 201),
\* so a raise ends the task; a suspension leaves it inside _driver_send; a
\* return takes it to the notifications of _send.
AfterSend(out) ==
    CASE out = "raise" -> "dead"
      [] out = "suspend" -> "sending"
      [] OTHER -> "notify"

\* The drain task is at an await (or not running at all): other coroutines may run.
CpuFree == tpc \notin {"outer", "inner", "notify"}

\* _driver_send as called with (t, sync) by `by`: what happens up to its first
\* await.  Result: [out, bus, wrote, evs] with out in {"raise", "suspend",
\* "return"} and wrote the number of writes to the bus.
\*   Base (lines 149-161): raises NotImplementedError.
\*   Bus  (lines 243-252): if sync, awaits RisingEdge(clock); else writes the bus.
\*   Sub  (a subclass override): awaits a trigger of its own.
DriverSendCall(t, sync, by) ==
    CASE impl = "Base" ->
           [out |-> "raise", bus |-> bus, wrote |-> 0,
            evs |-> <<Ev("start", t, sync, by), Ev("raise", t, sync, by)>>]
      [] impl = "Bus" /\ sync ->
           [out |-> "suspend", bus |-> bus, wrote |-> 0,
            evs |-> <<Ev("start", t, sync, by)>>]
      [] impl = "Bus" /\ ~sync ->
           [out |-> "return", bus |-> t, wrote |-> 1,
            evs |-> <<Ev("start", t, sync, by), Ev("done", t, sync, by)>>]
      [] OTHER ->
           [out |-> "suspend", bus |-> bus, wrote |-> 0,
            evs |-> <<Ev("start", t, sync, by)>>]

\* _driver_send resumed after its await; ok = FALSE: the subclass's send raises.
\*   Bus (line 252): self.bus.value = transaction, then returns.
DriverSendResume(t, sync, by, ok) ==
    IF impl = "Bus"
    THEN [out |-> "return", bus |-> t, wrote |-> 1,
          evs |-> <<Ev("done", t, sync, by)>>]
    ELSE IF ok
         THEN [out |-> "return", bus |-> bus, wrote |-> 0,
               evs |-> <<Ev("done", t, sync, by)>>]
         ELSE [out |-> "raise", bus |-> bus, wrote |-> 0,
               evs |-> <<Ev("raise", t, sync, by)>>]

\* ------------------------------------------------------------------ Init

\* Driver.__init__, lines 80-92: empty queue, the drain task scheduled with
\* start_soon (it has not run yet).
InitDriver ==
    /\ impl \in {"Base", "Bus", "Sub"}
    /\ sendQ = <<>>
    /\ pending = FALSE
    /\ thread = TRUE
    /\ tpc = "scheduled"
    /\ synchronised = FALSE
    /\ cur = NoEntry
    /\ callers = [c \in Callers |-> [pc |-> "idle", txn |-> 0, sync |-> FALSE]]
    /\ bus = 0
    /\ busWrites = 0
    /\ clears = <<>>
    /\ nAppends = 0 /\ nSends = 0 /\ nClears = 0 /\ nKills = 0
    /\ dropped = {}
    /\ opts = <<>>
    /\ dlog = <<>>
    /\ clog = <<>>

\* ------------------------------------------------- calls from test code

\* The drain task is suspended inside the _send of the transaction it popped
\* last (the await of line 178 has not returned yet).
DrainInFlight == tpc \in {"sending", "ready"}

\* Driver.append(transaction, callback, event), lines 110-129.
DoAppend(cb, ev) ==
    /\ CpuFree
    /\ nAppends < MaxAppends
    /\ sendQ' = Enqueue(sendQ, [txn |-> AppendTxn, cb |-> cb, ev |-> ev])
    /\ pending' = TRUE
    /\ tpc' = WakeOnPending(tpc)
    /\ nAppends' = nAppends + 1
    /\ opts' = Append(opts, [cb |-> cb, ev |-> ev, qe |-> sendQ = <<>>,
                             fl |-> (sendQ = <<>> /\ DrainInFlight)])
    /\ UNCHANGED <<impl, clears, thread, synchronised, cur, callers, bus, busWrites, nSends, nClears,
                   nKills, dropped, dlog, clog>>
    /\ UNCHANGED <<vvars, xvars>>

AppendCall == \E cb \in BOOLEAN, ev \in BOOLEAN : DoAppend(cb, ev)

\* append(transaction) with neither callback nor event.
PlainAppendCall == DoAppend(FALSE, FALSE)

\* The payloads of the entries of a queue.
Payloads(q) == {q[i].txn : i \in 1..Len(q)}

\* Driver.clear(), lines 131-133.
ClearCall ==
    /\ CpuFree
    /\ nClears < MaxClears
    /\ sendQ' = ClearedQ
    /\ nClears' = nClears + 1
    /\ dropped' = dropped \cup Payloads(sendQ)
    /\ clears' = (IF DrainInFlight
                  THEN Append(clears, [at |-> Len(dlog), n |-> nAppends])
                  ELSE clears)
    /\ UNCHANGED <<impl, pending, thread, tpc, synchronised, cur, callers, bus, busWrites,
                   nAppends, nSends, nKills, opts, dlog, clog>>
    /\ UNCHANGED <<vvars, xvars>>

\* (mutation of Killed: kill() leaves the task running)
KilledNot(pc) == pc

\* The task after Task.kill(): a task that already ended stays as it ended.
Killed(pc) == IF pc = "dead" THEN pc ELSE "killed"

\* Driver.kill(), lines 104-108.
KillCall ==
    /\ CpuFree
    /\ nKills < MaxKills
    /\ nKills' = nKills + 1
    /\ IF thread
       THEN /\ tpc' = Killed(tpc)
            /\ thread' = FALSE
       ELSE UNCHANGED <<tpc, thread>>
    /\ dlog' = Append(dlog, Ev("kill", 0, FALSE, DrainId))
    /\ UNCHANGED <<impl, clears, sendQ, pending, synchronised, cur, callers, bus, busWrites,
                   nAppends, nSends, nClears, dropped, opts, clog>>
    /\ UNCHANGED <<vvars, xvars>>

\* ------------------------------------------------------- the drain task

\* The scheduler runs the task: its first run (start_soon, line 92), or its
\* resumption from self._pending.wait() (line 192), which loops back to line 190.
DrainRun ==
    /\ tpc \in {"scheduled", "woken"}
    /\ tpc' = "outer"
    /\ UNCHANGED <<impl, clears, sendQ, pending, thread, synchronised, cur, callers, bus, busWrites,
                   nAppends, nSends, nClears, nKills, dropped, opts, dlog, clog>>
    /\ UNCHANGED <<vvars, xvars>>

\* _send_thread, lines 190-194.
DrainOuter ==
    /\ tpc = "outer"
    /\ IF sendQ = <<>>
       THEN /\ pending' = FALSE
            /\ tpc' = "waiting"
            /\ dlog' = Append(dlog, Ev("wait", 0, FALSE, DrainId))
            /\ UNCHANGED synchronised
       ELSE /\ synchronised' = FALSE
            /\ tpc' = "inner"
            /\ UNCHANGED <<pending, dlog>>
    /\ UNCHANGED <<impl, clears, sendQ, thread, cur, callers, bus, busWrites,
                   nAppends, nSends, nClears, nKills, dropped, opts, clog>>
    /\ UNCHANGED <<vvars, xvars>>

\* _send_thread, lines 198-202, up to the first await of _driver_send
\* (through _send, line 178).
DrainInner ==
    /\ tpc = "inner"
    /\ IF sendQ = <<>>
       THEN /\ tpc' = "outer"
            /\ UNCHANGED <<sendQ, cur, bus, busWrites, dlog>>
       ELSE LET e == PopHead(sendQ)
                r == DriverSendCall(e.txn, SyncArg(synchronised), DrainId)
            IN /\ sendQ' = PopRest(sendQ)
               /\ cur' = e
               /\ bus' = r.bus
               /\ busWrites' = busWrites + r.wrote
               /\ dlog' = dlog \o r.evs
               /\ tpc' = AfterSend(r.out)
    /\ UNCHANGED <<impl, clears, pending, thread, synchronised, callers,
                   nAppends, nSends, nClears, nKills, dropped, opts, clog>>
    /\ UNCHANGED <<vvars, xvars>>

\* The drain task resumed inside _driver_send after its trigger fired.
DoDrainResume(ok) ==
    /\ tpc = "ready"
    /\ LET r == DriverSendResume(cur.txn, SyncArg(synchronised), DrainId, ok)
       IN /\ bus' = r.bus
          /\ busWrites' = busWrites + r.wrote
          /\ dlog' = dlog \o r.evs
          /\ tpc' = AfterSend(r.out)
    /\ UNCHANGED <<impl, clears, sendQ, pending, thread, synchronised, cur, callers,
                   nAppends, nSends, nClears, nKills, dropped, opts, clog>>
    /\ UNCHANGED <<vvars, xvars>>

DrainResume == \E ok \in (IF impl = "Sub" THEN BOOLEAN ELSE {TRUE}) : DoDrainResume(ok)

\* _send, lines 181-184, then _send_thread line 203.
DrainNotify ==
    /\ tpc = "notify"
    /\ dlog' = dlog \o Notifications(cur)
    /\ synchronised' = TRUE
    /\ tpc' = "inner"
    /\ UNCHANGED <<impl, clears, sendQ, pending, thread, cur, callers, bus, busWrites,
                   nAppends, nSends, nClears, nKills, dropped, opts, clog>>
    /\ UNCHANGED <<vvars, xvars>>

\* ------------------------------------------------------ send() callers

\* (mutation of SendSync: send() always synchronises)
SendSyncAlways(sync) == TRUE

\* What send() hands to _driver_send through _send (line 147, line 178): the
\* caller's sync flag.
SendSync(sync) == sync

\* await driver.send(transaction, sync), lines 135-147, up to the first await
\* of _driver_send; _send is called with callback None and event None.
DoSend(c, sync) ==
    /\ CpuFree
    /\ nSends < MaxSends
    /\ callers[c].pc = "idle"
    /\ LET r == DriverSendCall(SendTxn, SendSync(sync), c)
       IN /\ bus' = r.bus
          /\ UNCHANGED busWrites
          /\ clog' = clog \o <<Ev("call", SendTxn, sync, c)>> \o r.evs \o
                      (IF r.out = "return" THEN <<Ev("return", SendTxn, sync, c)>> ELSE <<>>)
          /\ callers' = [callers EXCEPT ![c] =
                           IF r.out = "suspend"
                           THEN [pc |-> "sending", txn |-> SendTxn, sync |-> SendSync(sync)]
                           ELSE [pc |-> "idle", txn |-> 0, sync |-> FALSE]]
    /\ nSends' = nSends + 1
    /\ UNCHANGED <<impl, clears, sendQ, pending, thread, tpc, synchronised, cur,
                   nAppends, nClears, nKills, dropped, opts, dlog>>
    /\ UNCHANGED <<vvars, xvars>>

SendCall == \E c \in Callers, sync \in BOOLEAN : DoSend(c, sync)

\* The caller resumed inside _driver_send; on return, send() returns.
DoSendResume(c, ok) ==
    /\ CpuFree
    /\ callers[c].pc = "ready"
    /\ LET t == callers[c].txn
           s == callers[c].sync
           r == DriverSendResume(t, s, c, ok)
       IN /\ bus' = r.bus
          /\ UNCHANGED busWrites
          /\ clog' = clog \o r.evs \o
                      (IF r.out = "return" THEN <<Ev("return", t, s, c)>> ELSE <<>>)
    /\ callers' = [callers EXCEPT ![c] = [pc |-> "idle", txn |-> 0, sync |-> FALSE]]
    /\ UNCHANGED <<impl, clears, sendQ, pending, thread, tpc, synchronised, cur,
                   nAppends, nSends, nClears, nKills, dropped, opts, dlog>>
    /\ UNCHANGED <<vvars, xvars>>

SendResume ==
    \E c \in Callers, ok \in (IF impl = "Sub" THEN BOOLEAN ELSE {TRUE}) :
        DoSendResume(c, ok)

\* ------------------------------------------------------------ triggers

\* A rising edge of the clock: every coroutine suspended in
\* `await RisingEdge(self.clock)` (line 251; line 352 for the socket poller)
\* becomes runnable.  (An edge no coroutine awaits changes nothing here and is
\* not a step: between two writes of the drain task time only passes while it
\* is suspended, on the clock or on the pending event.)
ClockEdge ==
    /\ CpuFree
    /\ impl = "Bus"
    /\ \/ tpc = "sending"
       \/ \E c \in Callers : callers[c].pc = "sending"
       \/ spc = "polling"
    /\ busWrites' = 0
    /\ spc' = (IF spc = "polling" THEN "ready" ELSE spc)
    /\ tpc' = (IF tpc = "sending" THEN "ready" ELSE tpc)
    /\ callers' = [c \in Callers |->
                     IF callers[c].pc = "sending"
                     THEN [callers[c] EXCEPT !.pc = "ready"]
                     ELSE callers[c]]
    /\ UNCHANGED <<impl, clears, sendQ, pending, thread, synchronised, cur, bus,
                   nAppends, nSends, nClears, nKills, dropped, opts, dlog, clog>>
    /\ UNCHANGED <<vvars, bvars, lvars, slog>>

\* The trigger a subclass's _driver_send awaits fires, for the drain task.
SubTriggerDrain ==
    /\ CpuFree
    /\ impl = "Sub"
    /\ tpc = "sending"
    /\ tpc' = "ready"
    /\ UNCHANGED <<impl, clears, sendQ, pending, thread, synchronised, cur, callers, bus, busWrites,
                   nAppends, nSends, nClears, nKills, dropped, opts, dlog, clog>>
    /\ UNCHANGED <<vvars, xvars>>

\* The trigger a subclass's _driver_send awaits fires, for a send() caller.
SubTriggerCaller ==
    /\ CpuFree
    /\ impl = "Sub"
    /\ \E c \in Callers :
            /\ callers[c].pc = "sending"
            /\ callers' = [callers EXCEPT ![c].pc = "ready"]
    /\ UNCHANGED <<impl, clears, sendQ, pending, thread, tpc, synchronised, cur, bus, busWrites,
                   nAppends, nSends, nClears, nKills, dropped, opts, dlog, clog>>
    /\ UNCHANGED <<vvars, xvars>>

\* ------------------------------------------------- ValidatedBusDriver

\* Python values held by on / off: None, a bool, or an int.
PyNone == [ty |-> "none", v |-> 0]
PyFalse == [ty |-> "bool", v |-> 0]
PyTrue == [ty |-> "bool", v |-> 1]
PyInt(n) == [ty |-> "int", v |-> n]

\* Python truthiness: None, False and 0 are falsy.
Truthy(x) == x.ty # "none" /\ x.v # 0

\* valid_generator is None, or an iterator with `items` still to yield.
NoGen == [some |-> FALSE, items |-> <<>>]
Gen(items) == [some |-> TRUE, items |-> items]

\* _next_valids, line 316: self.on = False.
InitialOn == PyFalse

\* (mutation of KeepPulling: `if` for `while`, a single pull)
KeepPullingOnce(o) == o.ty = "bool" /\ o.v = 0

\* _next_valids, line 319: the loop runs while not self.on.
KeepPulling(o) == ~Truthy(o)

\* (mutation of ExhaustedOn: on is left False on StopIteration)
ExhaustedOnFalse == PyFalse

\* _next_valids, lines 322-327: on StopIteration, self.on = True.
ExhaustedOn == PyTrue

\* (mutation of ExhaustedOff: off is reset as in the no-generator case)
ExhaustedOffCleared(f) == PyFalse

\* _next_valids, lines 322-327: on StopIteration self.off is not assigned; it
\* keeps the value f it had.
ExhaustedOff(f) == f

\* _next_valids, lines 319-327: the loop, from generator contents g with
\* on = o, off = f after n calls of next().  Result: [items, on, off, pulls, exh].
RECURSIVE PullLoop(_, _, _, _)
PullLoop(g, o, f, n) ==
    IF ~KeepPulling(o)
    THEN [items |-> g, on |-> o, off |-> f, pulls |-> n, exh |-> FALSE]
    ELSE IF g = <<>>
         THEN [items |-> g, on |-> ExhaustedOn, off |-> ExhaustedOff(f),
               pulls |-> n + 1, exh |-> TRUE]
         ELSE PullLoop(Tail(g), PyInt(Head(g)[1]), PyInt(Head(g)[2]), n + 1)

\* _next_valids, lines 309-334, on generator vg with off = f.
NextValidsResult(vg, f) ==
    IF vg.some
    THEN PullLoop(vg.items, InitialOn, f, 0)
    ELSE [items |-> <<>>, on |-> PyTrue, off |-> PyFalse, pulls |-> 0, exh |-> FALSE]

\* The sources the model draws from: every sequence of at most MaxSrcLen pairs
\* (on, off) out of these four, two of them with on = 0.
Pairs == {<<0, 3>>, <<0, 2>>, <<5, 1>>, <<1, 0>>}
Sources == UNION {[1..n -> Pairs] : n \in 0..MaxSrcLen}
Generators == {NoGen} \cup {Gen(src) : src \in Sources}

\* The state after _next_valids has run on generator vg with off = f; op names
\* the call that ran it.
ValidAfter(vg, f, op, calls) ==
    LET r == NextValidsResult(vg, f)
    IN /\ valid_generator' = [vg EXCEPT !.items = r.items]
       /\ on' = r.on
       /\ off' = r.off
       /\ vop' = op
       /\ vpre' = vg
       /\ voff' = f
       /\ vpulls' = r.pulls
       /\ vexh' = r.exh
       /\ nCalls' = calls

\* ValidatedBusDriver.__init__, lines 303-307: on = off = None, then
\* set_valid_generator(valid_generator), which runs _next_valids.
InitValidWith(vg) ==
    LET r == NextValidsResult(vg, PyNone)
    IN /\ valid_generator = [vg EXCEPT !.items = r.items]
       /\ on = r.on
       /\ off = r.off
       /\ vop = "init"
       /\ vpre = vg
       /\ voff = PyNone
       /\ vpulls = r.pulls
       /\ vexh = r.exh
       /\ nCalls = 0

\* A ValidatedBusDriver's _next_valids is called (by a subclass's send).
NextValidsCall ==
    /\ nCalls < MaxCalls
    /\ ValidAfter(valid_generator, off, "next_valids", nCalls + 1)
    /\ UNCHANGED <<dvars, xvars>>

\* set_valid_generator(valid_generator), lines 336-339.
DoSetValidGenerator(vg) ==
    /\ ValidAfter(vg, off, "set_valid_generator", 0)
    /\ UNCHANGED <<dvars, xvars>>

SetValidGenerator == \E vg \in Generators : DoSetValidGenerator(vg)

\* ------------------------------------------------------------ BitDriver

\* _generator is None, or a source that cycles through the pairs (on, off) of
\* `pat` and yields pat[pos] next.
NoBitGen == [some |-> FALSE, pat |-> <<>>, pos |-> 0]
Cycle(pat) == [some |-> TRUE, pat |-> pat, pos |-> 1]

\* The sources the model draws from, each repeated forever.  Every pair has
\* on + off > 0: a twiddler given (0, 0) pairs only never reaches an await.
BitPatterns ==
    { << <<2, 1>> >>,
      << <<1, 2>>, <<1, 0>> >>,
      << <<0, 1>>, <<2, 1>> >>,
      << <<1, 0>>, <<0, 2>> >> }
BitGenerators == {NoBitGen} \cup {Cycle(p) : p \in BitPatterns}

\* next(self._generator), line 64: the pair yielded and the source afterwards.
BitNext(g) ==
    [item |-> g.pat[g.pos], gen |-> [g EXCEPT !.pos = (g.pos % Len(g.pat)) + 1]]

\* (mutation of HighEdges: the pair is unpacked the wrong way round)
HighEdgesSwapped(pair) == pair[2]

\* `on, off = next(self._generator)`, line 64: the edges awaited with the
\* signal at 1 (line 66) and with the signal at 0 (line 69).
HighEdges(pair) == pair[1]
LowEdges(pair) == pair[2]

\* A twiddler that is not suspended on the clock.
Twiddler(pc) == [pc |-> pc, left |-> 0, off |-> 0]

\* _cr_twiddler from the top of its loop body (line 64) to its next await, with
\* the pairs `got` already pulled in this run.
\* Result: [task, gen, signal, wrote, pulled].
RECURSIVE PullAndDrive(_, _)
PullAndDrive(g, got) ==
    LET nx == BitNext(g)
        hi == HighEdges(nx.item)
        lo == LowEdges(nx.item)
        all == Append(got, nx.item)
    IN IF hi > 0
       THEN [task |-> [pc |-> "high", left |-> hi, off |-> lo], gen |-> nx.gen,
             signal |-> 1, wrote |-> TRUE, pulled |-> all]
       ELSE IF lo > 0
            THEN [task |-> [pc |-> "low", left |-> lo, off |-> 0], gen |-> nx.gen,
                  signal |-> 0, wrote |-> TRUE, pulled |-> all]
            ELSE PullAndDrive(nx.gen, all)

\* A twiddler resumed by a rising edge (lines 66-70), up to its next await.
Resumed(t, g, sig) ==
    IF t.pc \in {"high", "low"} /\ t.left > 1
    THEN [task |-> [t EXCEPT !.left = t.left - 1], gen |-> g, signal |-> sig,
          wrote |-> FALSE, pulled |-> <<>>]
    ELSE IF t.pc = "high" /\ t.off > 0
         THEN [task |-> [pc |-> "low", left |-> t.off, off |-> 0], gen |-> g,
               signal |-> 0, wrote |-> TRUE, pulled |-> <<>>]
         ELSE IF t.pc \in {"high", "low"}
              THEN PullAndDrive(g, <<>>)
              ELSE [task |-> t, gen |-> g, signal |-> sig, wrote |-> FALSE,
                    pulled |-> <<>>]

\* Every twiddler from the i-th on resumed in turn by one rising edge.
RECURSIVE EdgeFrom(_, _)
EdgeFrom(i, st) ==
    IF i > Len(st.tasks)
    THEN st
    ELSE LET r == Resumed(st.tasks[i], st.gen, st.signal)
         IN EdgeFrom(i + 1, [tasks |-> [st.tasks EXCEPT ![i] = r.task],
                             gen |-> r.gen, signal |-> r.signal,
                             wrote |-> st.wrote \/ r.wrote,
                             pulled |-> st.pulled \o r.pulled])

\* BitDriver.__init__(signal, clk, generator), lines 28-32.
InitBitWith(g) ==
    /\ bgenerator = g
    /\ cr = 0
    /\ twiddlers = <<>>
    /\ signal = 0 - 1
    /\ wave = <<>>
    /\ pulled = <<>>
    /\ stopped = FALSE
    /\ lateWrite = FALSE
    /\ nStops = 0

\* BitDriver.start(generator), lines 34-48: the task is forked and runs to its
\* first await (lines 55-67); it raises when there is no generator at all.
DoBitStart(g) ==
    /\ Len(twiddlers) < MaxStarts
    /\ cr' = Len(twiddlers) + 1
    /\ stopped' = FALSE
    /\ IF ~g.some /\ ~bgenerator.some
       THEN /\ twiddlers' = Append(twiddlers, Twiddler("raised"))
            /\ UNCHANGED <<bgenerator, signal, pulled>>
       ELSE LET r == PullAndDrive(IF g.some THEN g ELSE bgenerator, <<>>)
            IN /\ twiddlers' = Append(twiddlers, r.task)
               /\ bgenerator' = r.gen
               /\ signal' = r.signal
               /\ pulled' = pulled \o r.pulled
    /\ UNCHANGED <<wave, lateWrite, nStops>>
    /\ UNCHANGED <<dvars, vvars, lvars, svars>>

BitStart == \E g \in BitGenerators : DoBitStart(g)

\* BitDriver.stop(), lines 50-52: kills the task _cr refers to.  (Before any
\* start() _cr is None and the call raises AttributeError.)
BitStop ==
    /\ nStops < MaxStops
    /\ cr # 0
    /\ nStops' = nStops + 1
    /\ stopped' = TRUE
    /\ twiddlers' = [twiddlers EXCEPT ![cr] =
                        IF @.pc = "raised" THEN @ ELSE Twiddler("killed")]
    /\ UNCHANGED <<bgenerator, cr, signal, wave, pulled, lateWrite>>
    /\ UNCHANGED <<dvars, vvars, lvars, svars>>

\* A rising edge of the BitDriver's clock: the signal is sampled, then every
\* twiddler suspended on the edge (lines 67, 70) runs to its next await.
BitEdge ==
    /\ Len(wave) < MaxEdges
    /\ \E i \in 1..Len(twiddlers) : twiddlers[i].pc \in {"high", "low"}
    /\ wave' = Append(wave, signal)
    /\ LET r == EdgeFrom(1, [tasks |-> twiddlers, gen |-> bgenerator,
                             signal |-> signal, wrote |-> FALSE, pulled |-> <<>>])
       IN /\ twiddlers' = r.tasks
          /\ bgenerator' = r.gen
          /\ signal' = r.signal
          /\ pulled' = pulled \o r.pulled
          /\ lateWrite' = (lateWrite \/ (stopped /\ r.wrote))
    /\ UNCHANGED <<cr, stopped, nStops>>
    /\ UNCHANGED <<dvars, vvars, lvars, svars>>

\* ---------------------------------------------------------- lock helpers

Tasks == 1..NumTasks

InitLock ==
    /\ busy = FALSE
    /\ busy_event = FALSE
    /\ lockers = [i \in Tasks |-> "idle"]
    /\ nAcquires = 0

\* _acquire_lock, lines 94-98, up to its await: a task that finds busy set
\* waits for busy_event (an Event already set resumes it through the scheduler).
AcquireCall(i) ==
    /\ lockers[i] = "idle"
    /\ nAcquires < MaxAcquires
    /\ nAcquires' = nAcquires + 1
    /\ IF busy
       THEN /\ lockers' = [lockers EXCEPT ![i] = IF busy_event THEN "woken" ELSE "waiting"]
            /\ UNCHANGED <<busy, busy_event>>
       ELSE /\ busy_event' = FALSE
            /\ busy' = TRUE
            /\ lockers' = [lockers EXCEPT ![i] = "holding"]
    /\ UNCHANGED <<dvars, vvars, bvars, svars>>

\* _acquire_lock resumed from busy_event.wait(), lines 97-98: busy is not
\* tested again.
AcquireResume(i) ==
    /\ lockers[i] = "woken"
    /\ busy_event' = FALSE
    /\ busy' = TRUE
    /\ lockers' = [lockers EXCEPT ![i] = "holding"]
    /\ UNCHANGED nAcquires
    /\ UNCHANGED <<dvars, vvars, bvars, svars>>

\* _release_lock, lines 100-102: Event.set() makes every waiter runnable.
ReleaseCall(i) ==
    /\ lockers[i] = "holding"
    /\ busy' = FALSE
    /\ busy_event' = TRUE
    /\ lockers' = [j \in Tasks |->
                     IF j = i THEN "idle"
                     ELSE IF lockers[j] = "waiting" THEN "woken" ELSE lockers[j]]
    /\ UNCHANGED nAcquires
    /\ UNCHANGED <<dvars, vvars, bvars, svars>>

\* ------------------------------------------------ polled_socket_attachment

\* What sock.recv gives (line 354): a would-block error, another error, an
\* empty read, or data.
PollKinds == {"wouldblock", "error", "empty", "data"}

\* (mutation of AfterPoll: a would-block error is raised like any other)
AfterPollFatal(k) ==
    CASE k = "data" -> "polling"
      [] k = "empty" -> "closed"
      [] OTHER -> "raised"

\* Where the coroutine is after a poll, lines 355-364: back at the await of
\* line 352, out of the loop (break), or ended by the exception.
AfterPoll(k) ==
    CASE k \in {"wouldblock", "data"} -> "polling"
      [] k = "empty" -> "closed"
      [] OTHER -> "raised"

\* No attachment ("off"), or one suspended at line 352.
InitSock(attached) ==
    /\ spc = (IF attached THEN "polling" ELSE "off")
    /\ slog = <<>>

\* The coroutine resumed by the rising edge: lines 353-364 and back to 352.
\* driver.append(data) is Driver.append with no callback and no event.
DoSockPoll(k) ==
    /\ CpuFree
    /\ spc = "ready"
    /\ Len(slog) < MaxPolls
    /\ spc' = AfterPoll(k)
    /\ IF k = "data"
       THEN /\ nAppends < MaxAppends
            /\ sendQ' = Enqueue(sendQ, [txn |-> AppendTxn, cb |-> FALSE, ev |-> FALSE])
            /\ pending' = TRUE
            /\ tpc' = WakeOnPending(tpc)
            /\ nAppends' = nAppends + 1
            /\ opts' = Append(opts, [cb |-> FALSE, ev |-> FALSE, qe |-> sendQ = <<>>,
                                  fl |-> (sendQ = <<>> /\ DrainInFlight)])
            /\ slog' = Append(slog, [k |-> k, t |-> AppendTxn])
       ELSE /\ slog' = Append(slog, [k |-> k, t |-> 0])
            /\ UNCHANGED <<sendQ, pending, tpc, nAppends, opts>>
    /\ UNCHANGED <<impl, clears, thread, synchronised, cur, callers, bus, busWrites,
                   nSends, nClears, nKills, dropped, dlog, clog>>
    /\ UNCHANGED <<vvars, bvars, lvars>>

SockPoll == \E k \in PollKinds : DoSockPoll(k)

\* The queue path: append/clear/kill from test code and the drain task.
Next ==
    \/ AppendCall
    \/ ClearCall
    \/ KillCall
    \/ DrainRun
    \/ DrainOuter
    \/ DrainInner
    \/ DrainResume
    \/ DrainNotify
    \/ ClockEdge
    \/ SubTriggerDrain

\* A Driver; its cycle state is that of a driver built without a generator.
\* No BitDriver started, no task at the lock helpers, no socket attached.
InitIdle == InitBitWith(NoBitGen) /\ InitLock /\ InitSock(FALSE)

Init == InitDriver /\ InitValidWith(NoGen) /\ InitIdle

Spec == Init /\ [][Next]_vars

\* The queue path together with coroutines that await send(); what is queued
\* is appended without callback or event (send() itself passes none, line 147).
NextSend ==
    \/ PlainAppendCall
    \/ DrainRun
    \/ DrainOuter
    \/ DrainInner
    \/ DrainResume
    \/ DrainNotify
    \/ SendCall
    \/ SendResume
    \/ ClockEdge
    \/ SubTriggerDrain
    \/ SubTriggerCaller

SpecSend == Init /\ [][NextSend]_vars

\* A ValidatedBusDriver built with any generator, then _next_valids and
\* set_valid_generator in any order; its queue is left alone.
InitValid ==
    /\ InitDriver /\ impl = "Bus"
    /\ \E vg \in Generators : InitValidWith(vg)
    /\ InitIdle

NextValid ==
    \/ NextValidsCall
    \/ SetValidGenerator

SpecValid == InitValid /\ [][NextValid]_vars

\* A BitDriver constructed with or without a generator, started and stopped
\* by test code while its clock runs.
InitBit ==
    /\ InitDriver /\ impl = "Bus"
    /\ InitValidWith(NoGen)
    /\ \E g \in BitGenerators : InitBitWith(g)
    /\ InitLock /\ InitSock(FALSE)

NextBit ==
    \/ BitStart
    \/ BitStop
    \/ BitEdge

SpecBit == InitBit /\ [][NextBit]_vars

\* Tasks contending for the lock of one Driver.
NextLock ==
    \/ \E i \in Tasks : AcquireCall(i)
    \/ \E i \in Tasks : AcquireResume(i)
    \/ \E i \in Tasks : ReleaseCall(i)

SpecLock == Init /\ [][NextLock]_vars

\* A BusDriver fed by polled_socket_attachment only.
InitSockAttached ==
    /\ InitDriver /\ impl = "Bus"
    /\ InitValidWith(NoGen)
    /\ InitBitWith(NoBitGen) /\ InitLock /\ InitSock(TRUE)

NextSock ==
    \/ SockPoll
    \/ ClockEdge
    \/ DrainRun
    \/ DrainOuter
    \/ DrainInner
    \/ DrainResume
    \/ DrainNotify

SpecSock == InitSockAttached /\ [][NextSock]_vars

\* The queue path with a _driver_send that always completes and no clear() or
\* kill(), under cocotb's scheduler: a runnable task is run, the clock keeps
\* ticking, the trigger a _driver_send awaits fires.
InitLive == Init /\ impl \in {"Bus", "Sub"}

NextLive ==
    \/ AppendCall
    \/ DrainRun
    \/ DrainOuter
    \/ DrainInner
    \/ DoDrainResume(TRUE)
    \/ DrainNotify
    \/ ClockEdge
    \/ SubTriggerDrain

SpecLive ==
    /\ InitLive
    /\ [][NextLive]_vars
    /\ WF_vars(DrainRun)
    /\ WF_vars(DrainOuter)
    /\ WF_vars(DrainInner)
    /\ WF_vars(DoDrainResume(TRUE))
    /\ WF_vars(DrainNotify)
    /\ WF_vars(ClockEdge)
    /\ WF_vars(SubTriggerDrain)

\* ============================================================== claims

\* Positions of the history dlog.
DPos == 1..Len(dlog)
\* The payloads whose _driver_send the drain task started, in order.
StartedTxns ==
    LET st == SelectSeq(dlog, LAMBDA e : e.k = "start")
    IN [i \in 1..Len(st) |-> st[i].t]
\* The payloads in the queue, in order.
QueuedTxns == [i \in 1..Len(sendQ) |-> sendQ[i].txn]
\* The sequence a+1, a+2, ..., a+n.
Run(a, n) == [i \in 1..n |-> a + i]

\* C1: with no clear(), the drain task starts the _driver_send calls in exactly
\* the order of the append calls, each transaction at most once and none
\* skipped: the payloads started are 1..m in this order and the queue holds
\* m+1..nAppends in this order.
C1_Fifo ==
    nClears = 0 =>
        /\ StartedTxns = Run(0, Len(StartedTxns))
        /\ QueuedTxns = Run(Len(StartedTxns), Len(sendQ))
        /\ Len(StartedTxns) + Len(sendQ) = nAppends

\* C1's case: all the appends made, no clear or kill, every send completed, all
\* of them in one burst of the drain task.
C1_Witness ==
    /\ nAppends = MaxAppends /\ nClears = 0 /\ nKills = 0
    /\ Len(SelectSeq(dlog, LAMBDA e : e.k = "done")) = MaxAppends
    /\ Len(SelectSeq(dlog, LAMBDA e : e.k = "wait")) = 1

\* The last position before i holding a start or a wait of the drain task (0: none).
PrevStartOrWait(i) ==
    LET js == {j \in 1..(i - 1) : dlog[j].k \in {"start", "wait"}}
    IN IF js = {} THEN 0 ELSE CHOOSE j \in js : \A h \in js : h <= j

\* C2: a send of the drain task that follows another of its sends with no wait
\* on the pending event in between (a later send of a burst) has sync = false;
\* its first send, and the first send after each wait on the pending event,
\* has sync = true.
C2_SyncOnlyFirst ==
    \A i \in DPos :
        dlog[i].k = "start" =>
            LET j == PrevStartOrWait(i)
            IN IF j # 0 /\ dlog[j].k = "start"
               THEN dlog[i].s = FALSE
               ELSE dlog[i].s = TRUE

\* C2's case: a burst of two sends with no wait in between, and a send that
\* follows a wait.
C2_Witness ==
    /\ \E i \in DPos : dlog[i].k = "start" /\ PrevStartOrWait(i) # 0
                       /\ dlog[PrevStartOrWait(i)].k = "start"
    /\ \E i \in DPos : dlog[i].k = "start" /\ PrevStartOrWait(i) # 0
                       /\ dlog[PrevStartOrWait(i)].k = "wait"

\* The _driver_send invocations started and not yet completed.
InFlight ==
    (IF tpc \in {"sending", "ready"} THEN 1 ELSE 0) +
    Cardinality({c \in Callers : callers[c].pc \in {"sending", "ready"}})

\* C3: at most one _driver_send invocation is in flight at any time.
C3_AtMostOneInFlight == InFlight <= 1

\* C4: a transaction discarded by clear() is never started, its callback is
\* never called and its event never set; clear() discards only what was queued
\* when it was called: every appended transaction is exactly one of discarded,
\* still queued, or taken by the drain task.
C4_ClearedNeverSent ==
    /\ \A i \in DPos : dlog[i].t \notin dropped
    /\ \A t \in 1..nAppends :
        LET d == IF t \in dropped THEN 1 ELSE 0
            q == Cardinality({i \in 1..Len(sendQ) : sendQ[i].txn = t})
            p == Cardinality({i \in DPos : dlog[i].k = "start" /\ dlog[i].t = t})
        IN d + q + p = 1

\* C4's case: a clear() discarded a queued transaction, and a transaction
\* appended after it was sent and notified.
C4_Witness ==
    /\ dropped # {}
    /\ \E i \in DPos : /\ dlog[i].k = "callback"
                       /\ \A t \in dropped : t < dlog[i].t

\* The notifications due for payload t, as a set of kinds.
DueKinds(t) == (IF opts[t].ev THEN {"event"} ELSE {}) \cup
               (IF opts[t].cb THEN {"callback"} ELSE {})

\* The first position after i holding a start, wait or kill (Len + 1: none).
NextStartOrWait(i) ==
    LET js == {j \in (i + 1)..Len(dlog) : dlog[j].k \in {"start", "wait", "kill"}}
    IN IF js = {} THEN Len(dlog) + 1 ELSE CHOOSE j \in js : \A h \in js : j <= h

\* C5: once the _driver_send of a queued transaction has completed, its event
\* is set and its callback called with that transaction, each exactly once if
\* given (and not at all if not given), before the drain task starts the next
\* _driver_send; no event is set and no callback called at any other point.
C5_NotifyOnceAfterSend ==
    /\ \A i \in DPos :
        (dlog[i].k = "done" /\ ~(i = Len(dlog) /\ tpc = "notify")) =>
            LET t == dlog[i].t
                blk == (i + 1)..(NextStartOrWait(i) - 1)
            IN /\ \A j \in blk : dlog[j].t = t /\ dlog[j].k \in DueKinds(t)
               /\ \A k \in DueKinds(t) :
                    Cardinality({j \in DPos : dlog[j].k = k /\ dlog[j].t = t}) = 1
               /\ \A k \in DueKinds(t) : \E j \in blk : dlog[j].k = k
    /\ \A j \in DPos :
        dlog[j].k \in {"event", "callback"} =>
            \E i \in 1..(j - 1) : /\ dlog[i].k = "done" /\ dlog[i].t = dlog[j].t
                                  /\ j < NextStartOrWait(i)

\* C5's case: a transaction given both an event and a callback was sent and
\* notified, and the next queued transaction was started after it.
C5_Witness ==
    \E i \in DPos, j \in DPos :
        /\ dlog[i].k = "done" /\ DueKinds(dlog[i].t) = {"event", "callback"}
        /\ dlog[j].k = "start" /\ i < j

\* C6: when _driver_send raises for a queued transaction the drain task is over
\* for good: nothing follows the raise in its history but kill() calls, so the
\* failing transaction gets no event and no callback and no other transaction
\* is sent or notified; transactions appended after the raise are enqueued and
\* stay queued until a clear().
C6_RaiseIsFatal ==
    \A i \in DPos :
        dlog[i].k = "raise" =>
            /\ tpc = "dead"
            /\ \A j \in (i + 1)..Len(dlog) : dlog[j].k = "kill"
            /\ \A j \in DPos : dlog[j].t = dlog[i].t => dlog[j].k \in {"start", "raise"}
            /\ \A t \in (dlog[i].n + 1)..nAppends :
                 t \in Payloads(sendQ) \cup dropped

\* C6's case: the send of a transaction with an event and a callback raised
\* after it had been suspended, and a transaction appended later is queued.
C6_Witness ==
    \E i \in DPos :
        /\ impl = "Sub"
        /\ dlog[i].k = "raise"
        /\ DueKinds(dlog[i].t) = {"event", "callback"}
        /\ dlog[i].n < nAppends
        /\ nAppends \in Payloads(sendQ)

\* The state of the drain task and the queue that only the queue path may touch.
qvars == <<sendQ, pending, thread, tpc, synchronised, cur, dropped, opts>>

\* C7: after kill() the drain task does nothing more: its history holds only
\* kill() calls after the first one, so no _driver_send is started, no callback
\* called and no event set, for the transaction in flight, for those queued and
\* for those appended later; a kill() after the first changes nothing of the
\* driver.
C7_KillStopsDrain ==
    /\ [](nKills > 0 =>
            /\ ~thread
            /\ tpc \in {"killed", "dead"}
            /\ \A i \in DPos : dlog[i].k = "kill" =>
                   \A j \in (i + 1)..Len(dlog) : dlog[j].k = "kill")
    /\ [][(nKills' > nKills /\ nKills > 0) =>
            UNCHANGED <<qvars, impl, callers, bus, clog>>]_vars

\* C7's case: kill() while a send was in flight and a transaction queued, a
\* transaction appended after it, and a second kill().
C7_Witness ==
    /\ nKills = 2
    /\ tpc = "killed"
    /\ \E i \in DPos : /\ dlog[i].k = "kill" /\ i > 1 /\ dlog[i - 1].k = "start"
                       /\ dlog[i].n = 1
    /\ Len(sendQ) = 1 /\ nAppends = 2

\* Positions of the history clog.
CPos == 1..Len(clog)

\* C8: send(transaction, sync) starts _driver_send(transaction, sync) in the
\* step of the call, with the caller's sync flag, whatever the queue holds; it
\* returns only right after that _driver_send has completed; and no step of a
\* send() changes the queue, the pending event, the drain task or what is
\* queued with the transactions.
C8_SendBypassesQueue ==
    /\ [](\A i \in CPos :
            /\ clog[i].k = "call" =>
                 /\ i < Len(clog)
                 /\ clog[i + 1] = [clog[i] EXCEPT !.k = "start"]
            /\ clog[i].k = "return" =>
                 /\ i > 1
                 /\ clog[i - 1] = [clog[i] EXCEPT !.k = "done"])
    /\ [][clog' # clog => UNCHANGED <<qvars, dlog>>]_vars

\* C8's case: a send() with sync = false returned while the drain task was
\* suspended in a send of its own with a transaction still queued.
C8_Witness ==
    /\ clog # <<>>
    /\ clog[Len(clog)].k = "return" /\ clog[Len(clog)].s = FALSE
    /\ tpc = "sending"
    /\ sendQ # <<>>

\* Whether a source holds a pair with non-zero on.
HasNonZero(items) == \E k \in 1..Len(items) : items[k][1] # 0
\* The position of its first pair with non-zero on.
FirstNonZero(items) ==
    CHOOSE k \in 1..Len(items) :
        items[k][1] # 0 /\ \A j \in 1..(k - 1) : items[j][1] = 0

\* C9: when the generator _next_valids finds holds a pair with non-zero on, the
\* call ends with (on, off) equal to the first such pair, having pulled the
\* pairs up to it and nothing after it.
C9_SkipsZeroOn ==
    (vpre.some /\ HasNonZero(vpre.items)) =>
        LET k == FirstNonZero(vpre.items)
        IN /\ on = PyInt(vpre.items[k][1])
           /\ off = PyInt(vpre.items[k][2])
           /\ valid_generator.items = SubSeq(vpre.items, k + 1, Len(vpre.items))
           /\ vpulls = k

\* C9's case: the source (0,3), (0,2), (5,1) settles on (5,1).
C9_Witness ==
    /\ vpre = Gen(<< <<0, 3>>, <<0, 2>>, <<5, 1>> >>)
    /\ on = PyInt(5) /\ off = PyInt(1)
    /\ vpulls = 3
    /\ valid_generator.items = <<>>

\* C10: a call of _next_valids that finds the installed generator exhausted, or
\* exhausts it, ends with on = True and leaves it exhausted, for every call
\* until set_valid_generator installs another generator.
C10_ExhaustedStaysOn ==
    (vpre.some /\ (vexh \/ vpre.items = <<>>)) =>
        /\ on = PyTrue
        /\ vexh
        /\ valid_generator = Gen(<<>>)

\* C10's case: the MaxCalls-th call in a row on a generator that was empty
\* from the start.
C10_Witness ==
    /\ vop = "next_valids"
    /\ nCalls = MaxCalls
    /\ vpre = Gen(<<>>)
    /\ off = PyNone
    /\ on = PyTrue

\* The samples a twiddler's pairs ask for, in order: for each pair (on, off),
\* `on` samples at 1 and then `off` samples at 0.
RECURSIVE Expand(_)
Expand(ps) ==
    IF ps = <<>>
    THEN <<>>
    ELSE [i \in 1..(Head(ps)[1] + Head(ps)[2]) |-> IF i <= Head(ps)[1] THEN 1 ELSE 0]
         \o Expand(Tail(ps))

\* The rising edges a suspended twiddler still awaits before it pulls again.
EdgesOwed(t) ==
    CASE t.pc = "high" -> t.left + t.off
      [] t.pc = "low" -> t.left
      [] OTHER -> 0

\* C11: while a single twiddler runs, the signal sampled at the rising edges is
\* the pairs pulled so far laid out in order, each as `on` samples at 1 followed
\* by `off` samples at 0; the next pair is pulled only when the edges of the
\* pair before it have all passed, and the signal is 1 exactly in the `on` part.
C11_HighOnLowOff ==
    (Len(twiddlers) = 1 /\ twiddlers[1].pc \in {"high", "low"}) =>
        LET e == Expand(pulled)
            t == twiddlers[1]
        IN /\ Len(wave) + EdgesOwed(t) = Len(e)
           /\ wave = SubSeq(e, 1, Len(wave))
           /\ EdgesOwed(t) <= pulled[Len(pulled)][1] + pulled[Len(pulled)][2]
           /\ signal = (IF t.pc = "high" THEN 1 ELSE 0)

\* C11's case: a single twiddler on the repeated pair (2, 1) has seen MaxEdges
\* edges, with the signal sampled high, high, low and high again.
C11_Witness ==
    /\ Len(twiddlers) = 1
    /\ twiddlers[1].pc \in {"high", "low"}
    /\ bgenerator.pat = << <<2, 1>> >>
    /\ Len(wave) = MaxEdges
    /\ SubSeq(wave, 1, 4) = <<1, 1, 0, 1>>

\* C12: after stop() and until the next start(), no twiddler writes the signal.
C12_NoWriteAfterStop == ~lateWrite

\* The polls that received data, in order.
DataPolls == SelectSeq(slog, LAMBDA p : p.k = "data")

\* C13: a poll that hits a would-block error or receives data is followed by
\* the wait for the next rising edge, and no other poll is; an empty read ends
\* the coroutine by leaving the loop, any other error by raising; there is one
\* append per poll that received data and none otherwise, and the driver takes
\* the data in the order received.
C13_SocketPolls ==
    /\ \A i \in 1..Len(slog) :
         (slog[i].k \in {"wouldblock", "data"}) <=>
            (i < Len(slog) \/ spc \in {"polling", "ready"})
    /\ spc = "closed" <=> (slog # <<>> /\ slog[Len(slog)].k = "empty")
    /\ spc = "raised" <=> (slog # <<>> /\ slog[Len(slog)].k = "error")
    /\ nAppends = Len(DataPolls)
    /\ StartedTxns \o QueuedTxns = [i \in 1..Len(DataPolls) |-> DataPolls[i].t]

\* C13's case: a would-block poll, two polls with data, then an empty read.
C13_Witness ==
    /\ [i \in 1..Len(slog) |-> slog[i].k] = <<"wouldblock", "data", "data", "empty">>
    /\ spc = "closed"
    /\ nAppends = 2

\* The sends the drain task started for transactions that were appended to an
\* empty queue.
RefillStarts == {i \in DPos : dlog[i].k = "start" /\ opts[dlog[i].t].qe}

\* C14: the drain task of a BusDriver makes no two writes to the bus without a
\* rising edge between them.
C14_OneWritePerEdge == busWrites <= 1

\* C15 as stated: a transaction appended to an empty queue, also while the
\* last popped transaction is still in flight, is sent with sync = true.
C15_ResyncOnRefill == \A i \in RefillStarts : dlog[i].s = TRUE

\* C15, amended: the drain task re-synchronises only when it has gone back to
\* line 190: a transaction appended to an empty queue is sent with sync = true
\* when no queued send was in flight at the append, and with sync = false when
\* the last popped transaction was still in flight.
C15_ResyncAfterIdle == \A i \in RefillStarts : dlog[i].s = ~opts[dlog[i].t].fl

\* C15's case: a transaction appended to the empty queue during a send was
\* sent with sync = false, and one appended to the empty queue while the drain
\* task waited was sent with sync = true.
C15_Witness ==
    /\ \E i \in DPos : /\ dlog[i].k = "start"
                       /\ opts[dlog[i].t].fl
                       /\ dlog[i].s = FALSE
    /\ \E i \in DPos : /\ dlog[i].k = "start" /\ i > 1
                       /\ dlog[i - 1].k = "wait"
                       /\ opts[dlog[i].t].qe /\ ~opts[dlog[i].t].fl
                       /\ dlog[i].s = TRUE

\* C16 as stated: after a call that hit exhaustion the state is that of the
\* no-source case: on = True and off falsy.
C16_ExhaustedAsNoSource == vexh => (on = PyTrue /\ ~Truthy(off))

\* C16, amended: after a call that hit exhaustion on = True and off is what the
\* last pair pulled by that call made it, or what it was before the call when
\* the call pulled no pair.
C16_ExhaustedKeepsOff ==
    vexh =>
        /\ on = PyTrue
        /\ off = (IF vpre.items = <<>>
                  THEN voff
                  ELSE PyInt(vpre.items[Len(vpre.items)][2]))

\* C16's case: a call that found the generator already exhausted, after the
\* call that exhausted it had pulled the zero-on pair (0, 3): off is still 3.
C16_Witness ==
    /\ vexh
    /\ vop = "next_valids" /\ nCalls >= 2
    /\ vpre = Gen(<<>>)
    /\ on = PyTrue
    /\ off = PyInt(3)

\* C19: a call of _next_valids on a generator with k pairs left returns having
\* called next() at most k + 1 times, with a truthy on; when all k pairs have
\* on = 0 it calls next() k + 1 times and ends with on = True.
C19_PullsBounded ==
    vpre.some =>
        /\ vpulls <= Len(vpre.items) + 1
        /\ Truthy(on)
        /\ ~HasNonZero(vpre.items) =>
              (vpulls = Len(vpre.items) + 1 /\ on = PyTrue)

\* C19's case: a source of MaxSrcLen pairs, all with on = 0, was pulled
\* MaxSrcLen + 1 times by one call.
C19_Witness ==
    /\ vpre.some
    /\ Len(vpre.items) = MaxSrcLen
    /\ ~HasNonZero(vpre.items)
    /\ vpulls = MaxSrcLen + 1
    /\ on = PyTrue

\* The tasks between the return of their _acquire_lock and their _release_lock.
Holders == {i \in Tasks : lockers[i] = "holding"}

\* C17: at most one task holds the lock at any time.
C17_MutualExclusion == Cardinality(Holders) <= 1

\* The drain task's _driver_send of payload t has completed.
Sent(t) == \E i \in DPos : dlog[i].k = "done" /\ dlog[i].t = t

\* C18: the drain task is never suspended on the pending event with a
\* non-empty queue, and every transaction appended is eventually sent.
C18_NoLostWakeup ==
    /\ [](tpc = "waiting" => sendQ = <<>>)
    /\ \A t \in 1..MaxAppends : (nAppends >= t) ~> Sent(t)

\* C18's case: transactions were appended while the drain task waited on the
\* pending event and while it was suspended in a send, and all were sent.
C18_Witness ==
    /\ nAppends = MaxAppends
    /\ \A t \in 1..MaxAppends : Sent(t)
    /\ \E t \in 1..MaxAppends : opts[t].fl
    /\ \E i \in DPos : /\ i > 1 /\ dlog[i].k = "start"
                       /\ dlog[i - 1].k = "wait"

\* The last start of the drain task among the first p entries of dlog.
LastStart(p) == CHOOSE i \in 1..p : dlog[i].k = "start" /\
                    \A h \in (i + 1)..p : dlog[h].k # "start"

====
